---- MODULE Spec2Model ----
(***************************************************************************)
(* The pricing table of upstash-web                                        *)
(* (src/src/components/pricing/search/pricing-table.tsx) and the page      *)
(* that shows it.                                                          *)
(*                                                                         *)
(* PricingTable is a React function component without parameters, hooks    *)
(* or state: it returns one fixed JSX tree, a grid of three plan cards.    *)
(* The model keeps that tree as data (El), renders it the way React does   *)
(* (children in order, the Button component replaced by what it renders),  *)
(* and lets a visitor do what the page allows: display it, re-render it,   *)
(* toggle the theme and activate the action control of a card.             *)
(*                                                                         *)
(* The second source file, the Quick Apply article                         *)
(* (src/data/blog/2025-06-28-upstash-quick-apply.mdx), carries the code of *)
(* a chat back end: the POST handler with its Redis transcript, the        *)
(* retrieval-augmented handleUserQuery and the conductInterview            *)
(* orchestration. Each has its own variables, actions and specification    *)
(* (SpecChat, SpecQuery, SpecInterview); Spec is the pricing page.         *)
(***************************************************************************)
EXTENDS Integers, Sequences, FiniteSets, TLC

VARIABLES
    mounted,      \* TRUE while the page that shows PricingTable is displayed
    dom,          \* the output of the last render (NoDom before the first)
    firstDom,     \* the output of the first render (NoDom before it)
    theme,        \* "light" or "dark": the page's colour scheme
    history,      \* the session history: the URLs visited, the current one last
    renders,      \* how many times PricingTable has been invoked
    activations,  \* how many times a control has been activated
    lastControl,  \* index of the card whose control was activated last (0: none)
    failure,      \* the failure of the last render: the cards whose Button
                  \* threw, the error thrown and the error that left the render
    chatRedis,    \* the session's key session:<id>:messages: its list, whether
                  \* it has a TTL, and how often it has expired
    chatReq,      \* the POST requests of the session: where each stands, what
                  \* it has read and written, and how often the key had
                  \* expired when it returned
    chatClock,    \* Date.now(): the instants at which it has been read so far
    query,        \* handleUserQuery: where the call stands, what it retrieved,
                  \* the context it built, its calls of the language model and
                  \* what it returned
    interview     \* conductInterview: where the call stands, its loop index,
                  \* its totalScore and the log of what it has done

pageVars ==
    <<mounted, dom, firstDom, theme, history, renders, activations,
      lastControl, failure>>

chatVars == <<chatRedis, chatReq, chatClock>>

queryVars == <<query>>

interviewVars == <<interview>>

blogVars == <<chatVars, queryVars, interviewVars>>

vars == <<pageVars, blogVars>>

\* ------------------------------------------------------------------ bounds
MaxRenders == 3
MaxActivations == 3
MaxHistory == 3
NumRequests == 2
MaxExpiries == 1
MaxQueries == 2
NumQuestions == 2

\* ------------------------------------------------------------- JSX elements
\* One JSX element: its type, its className as a set of tokens, its props
\* other than className, its text and its child elements in source order.
El(tag, class, attrs, text, children) ==
    [tag |-> tag, class |-> class, attrs |-> attrs, text |-> text,
     children |-> children]

NoAttrs == [x \in {} |-> ""]
NoDom == El("none", {}, NoAttrs, "", <<>>)

\* URLs. A URL is the document it names and its fragment; NoFragment is the
\* null fragment of a URL without '#', "" the empty fragment of one ending
\* in '#'.
NoFragment == "null"
PricingPage == "pricing page"
ConsoleUrl == "https://console.upstash.com"
Placeholder == "#"

\* className of a plan card's outer div (lines 11 and 89).
CardClass ==
    {"flex", "flex-col", "items-center", "gap-4", "rounded-4xl", "bg-white",
     "p-6", "shadow", "sm:gap-6", "sm:p-8", "dark:border-bg-mute",
     "dark:bg-bg-mute"}

\* className of the highlighted card's outer div (line 51).
HighlightClass == CardClass \cup {"border-2", "border-primary"}

TitleClass == {"mb-4", "py-1", "text-xl", "font-bold", "text-primary-text"}
AmountClass == {"text-2xl", "font-semibold"}
UnitClass == {"text-sm", "text-text-mute"}
BannerClass ==
    {"text-balance", "rounded-lg", "bg-bg-mute", "px-3", "py-2", "text-sm",
     "text-primary-text", "dark:text-text-mute"}
RowBoxClass == {"w-full", "px-6", "*:border-b", "*:border-bg-mute"}

\* <div className="grow"> <h4>..</h4> <h5>..</h5> <p>..</p> </div>
Header(title, amountClass, amount, unit) ==
    El("div", {"grow"}, NoAttrs, "",
       << El("h4", TitleClass, NoAttrs, title, <<>>),
          El("h5", amountClass, NoAttrs, amount, <<>>),
          El("p", UnitClass, NoAttrs, unit, <<>>) >>)

\* <div className="grow"> <div className="text-balance ...">..</div> </div>
Banner(text) ==
    El("div", {"grow"}, NoAttrs, "",
       << El("div", BannerClass, NoAttrs, text, <<>>) >>)

\* <div className="w-full ..."> <div className="py-3"> <p/> <p/> </div> </div>
LimitRow(label, value) ==
    El("div", RowBoxClass, NoAttrs, "",
       << El("div", {"py-3"}, NoAttrs, "",
             << El("p", {"text-text-mute"}, NoAttrs, label, <<>>),
                El("p", {"font-semibold"}, NoAttrs, value, <<>>) >>) >>)

\* Action with the link's target and label exchanged.
ActionSwapped(href, label) ==
    El("div", {}, NoAttrs, "",
       << El("Button", {}, [asChild |-> TRUE, variant |-> "primary"], "",
             << El("a", {}, [target |-> "_self", href |-> label], href,
                   <<>>) >>) >>)

\* <div> <Button asChild variant="primary"> <a target="_self" href=..>..</a>
\* </Button> </div>
Action(href, label) ==
    El("div", {}, NoAttrs, "",
       << El("Button", {}, [asChild |-> TRUE, variant |-> "primary"], "",
             << El("a", {}, [target |-> "_self", href |-> href], label,
                   <<>>) >>) >>)

\* The Free card with its two limit rows in the other order.
FreeCardRowsSwapped ==
    El("div", CardClass, NoAttrs, "",
       << Header("Free", AmountClass, "$0", "-"),
          Banner("Perfect for prototypes and hobby projects"),
          LimitRow("Max Records", "200K"),
          LimitRow("Monthly Query Limit", "20K"),
          Action(ConsoleUrl, "Start Now") >>)

FreeCard ==
    El("div", CardClass, NoAttrs, "",
       << Header("Free", AmountClass, "$0", "-"),
          Banner("Perfect for prototypes and hobby projects"),
          LimitRow("Monthly Query Limit", "20K"),
          LimitRow("Max Records", "200K"),
          Action(ConsoleUrl, "Start Now") >>)

\* The Pay-as-you-go card with its two limit rows in the other order.
PaygCardRowsSwapped ==
    El("div", HighlightClass, NoAttrs, "",
       << Header("Pay as you go", AmountClass, "$0.05", "per 1K requests"),
          Banner("For use cases with bursting traffic"),
          LimitRow("Max Records", "Unlimited"),
          LimitRow("Monthly Query Limit", "Unlimited"),
          Action(ConsoleUrl, "Start Now") >>)

PaygCard ==
    El("div", HighlightClass, NoAttrs, "",
       << Header("Pay as you go", AmountClass, "$0.05", "per 1K requests"),
          Banner("For use cases with bursting traffic"),
          LimitRow("Monthly Query Limit", "Unlimited"),
          LimitRow("Max Records", "Unlimited"),
          Action(ConsoleUrl, "Start Now") >>)

\* The Pro card without an action control.
ProCardNoControl ==
    El("div", CardClass, NoAttrs, "",
       << Header("Pro", AmountClass \cup {"flex", "items-baseline"},
                 "Coming Soon", "-"),
          Banner("For consistent loads with predictable costs"),
          LimitRow("Monthly Query Limit", "Unlimited"),
          LimitRow("Max Records", "Unlimited") >>)

\* The Pro card as a copy of the Pay-as-you-go card that kept its title.
ProCardCopiedTitle ==
    El("div", CardClass, NoAttrs, "",
       << Header("Pay as you go", AmountClass \cup {"flex", "items-baseline"},
                 "Coming Soon", "-"),
          Banner("For consistent loads with predictable costs"),
          LimitRow("Monthly Query Limit", "Unlimited"),
          LimitRow("Max Records", "Unlimited"),
          Action(Placeholder, "Coming Soon") >>)

ProCard ==
    El("div", CardClass, NoAttrs, "",
       << Header("Pro", AmountClass \cup {"flex", "items-baseline"},
                 "Coming Soon", "-"),
          Banner("For consistent loads with predictable costs"),
          LimitRow("Monthly Query Limit", "Unlimited"),
          LimitRow("Max Records", "Unlimited"),
          Action(Placeholder, "Coming Soon") >>)

\* PricingTable with the first two cards exchanged.
PricingTableReordered ==
    El("div", {"grid", "gap-6", "md:grid-cols-3"}, NoAttrs, "",
       << PaygCard, FreeCard, ProCard >>)

\* PricingTable reading the theme: no Pro card in dark mode.
PricingTableThemed ==
    El("div", {"grid", "gap-6", "md:grid-cols-3"}, NoAttrs, "",
       IF theme = "dark" THEN << FreeCard, PaygCard >>
       ELSE << FreeCard, PaygCard, ProCard >>)

\* PricingTable reversing a shared list of cards in place on every call.
PricingTableReversing ==
    El("div", {"grid", "gap-6", "md:grid-cols-3"}, NoAttrs, "",
       IF renders % 2 = 0 THEN << FreeCard, PaygCard, ProCard >>
       ELSE << ProCard, PaygCard, FreeCard >>)

\* The element PricingTable() returns.
PricingTable ==
    El("div", {"grid", "gap-6", "md:grid-cols-3"}, NoAttrs, "",
       << FreeCard, PaygCard, ProCard >>)

\* -------------------------------------------------------------- the catalog
\* The plan descriptors the source declares, in source order. A call to
\* action is enabled when its target is a destination and disabled when it
\* is the placeholder "#".
CallToAction(label, href) ==
    [label |-> label, href |-> href, enabled |-> href # Placeholder]

FreePlan ==
    [name |-> "Free", priceLabel |-> "$0", priceUnit |-> "-",
     description |-> "Perfect for prototypes and hobby projects",
     limits |-> << <<"Monthly Query Limit", "20K">>,
                   <<"Max Records", "200K">> >>,
     callToAction |-> CallToAction("Start Now", ConsoleUrl),
     highlighted |-> FALSE]

PaygPlan ==
    [name |-> "Pay as you go", priceLabel |-> "$0.05",
     priceUnit |-> "per 1K requests",
     description |-> "For use cases with bursting traffic",
     limits |-> << <<"Monthly Query Limit", "Unlimited">>,
                   <<"Max Records", "Unlimited">> >>,
     callToAction |-> CallToAction("Start Now", ConsoleUrl),
     highlighted |-> TRUE]

ProPlan ==
    [name |-> "Pro", priceLabel |-> "Coming Soon", priceUnit |-> "-",
     description |-> "For consistent loads with predictable costs",
     limits |-> << <<"Monthly Query Limit", "Unlimited">>,
                   <<"Max Records", "Unlimited">> >>,
     callToAction |-> CallToAction("Coming Soon", Placeholder),
     highlighted |-> FALSE]

Catalog == << FreePlan, PaygPlan, ProPlan >>

\* ---------------------------------------------------------------- rendering
\* The Button primitive with asChild: it renders its child element, adds
\* its variant's styling, and marks the child disabled when it is given a
\* disabled flag.
Button(props, child) ==
    [child EXCEPT
        !.class = @ \cup {props.variant},
        !.attrs = IF "disabled" \in DOMAIN props
                  THEN @ @@ [disabled |-> props.disabled]
                  ELSE @]

\* React's render of an element: host elements keep their type, props and
\* text, and their children are rendered in order; a Button element is
\* replaced by what Button returns for its props and rendered child.
RECURSIVE Render(_)
Render(el) ==
    IF el.tag = "Button"
    THEN Button(el.attrs, Render(el.children[1]))
    ELSE [el EXCEPT
            !.children = [i \in 1..Len(el.children) |-> Render(el.children[i])]]

\* What a render yields when it throws: the error, in place of an element.
Thrown(err) == El("throw", {}, NoAttrs, err, <<>>)
IsThrown(r) == r.tag = "throw"

\* The errors a failing Button may throw.
Errors == {"TypeError", "RangeError"}

NoFailure == [cards |-> {}, thrown |-> "none", seen |-> "none"]

\* The render of an element whose Button throws err when it is invoked. No
\* element of the table catches: the first error of a child leaves its parent.
RECURSIVE RenderThrowing(_, _)
RenderThrowing(el, err) ==
    IF el.tag = "Button"
    THEN Thrown(err)
    ELSE LET kids == [i \in 1..Len(el.children) |->
                         RenderThrowing(el.children[i], err)]
             bad == {i \in 1..Len(el.children) : IsThrown(kids[i])}
         IN  IF bad = {}
             THEN [el EXCEPT !.children = kids]
             ELSE kids[CHOOSE i \in bad : \A j \in bad : i <= j]

\* TryRender with a boundary around each card that drops a card that threw.
TryRenderSkipping(grid, failing, err) ==
    [grid EXCEPT
        !.children = [i \in 1..(Len(grid.children) - Cardinality(failing)) |->
                         Render(grid.children[
                             CHOOSE k \in 1..Len(grid.children) :
                                 /\ k \notin failing
                                 /\ Cardinality({j \in 1..k : j \notin failing})
                                        = i])]]

\* The render of the grid when the Button throws err in the cards of
\* failing: the grid's children are rendered in order, and the first error
\* leaves the render in place of the grid.
TryRender(grid, failing, err) ==
    LET kids == [i \in 1..Len(grid.children) |->
                    IF i \in failing
                    THEN RenderThrowing(grid.children[i], err)
                    ELSE Render(grid.children[i])]
        bad == {i \in 1..Len(grid.children) : IsThrown(kids[i])}
    IN  IF bad = {}
        THEN [grid EXCEPT !.children = kids]
        ELSE kids[CHOOSE i \in bad : \A j \in bad : i <= j]

\* ------------------------------------------------------- the rendered cards
\* A control is interactive when it is a link with a target and carries no
\* disabled flag.
Interactive(node) ==
    /\ node.tag = "a"
    /\ "href" \in DOMAIN node.attrs
    /\ ~("disabled" \in DOMAIN node.attrs /\ node.attrs.disabled)

Part(kind, text, value, href, interactive) ==
    [kind |-> kind, text |-> text, value |-> value, href |-> href,
     interactive |-> interactive]

RECURSIVE Concat(_)
Concat(ss) == IF ss = <<>> THEN <<>> ELSE Head(ss) \o Concat(Tail(ss))

\* What a rendered subtree exposes, in document order: titles (h4), price
\* amounts (h5), price units (the small muted p), description banners,
\* limit rows (a py-3 box of a label and a value) and action controls (a).
RECURSIVE Parts(_)
Parts(node) ==
    IF node.tag = "h4"
    THEN << Part("title", node.text, "", "", FALSE) >>
    ELSE IF node.tag = "h5"
    THEN << Part("amount", node.text, "", "", FALSE) >>
    ELSE IF node.tag = "p" /\ "text-sm" \in node.class
    THEN << Part("unit", node.text, "", "", FALSE) >>
    ELSE IF node.tag = "div" /\ "rounded-lg" \in node.class
    THEN << Part("banner", node.text, "", "", FALSE) >>
    ELSE IF node.tag = "div" /\ "py-3" \in node.class
    THEN << Part("row", node.children[1].text, node.children[2].text, "",
                 FALSE) >>
    ELSE IF node.tag = "a"
    THEN << Part("control", node.text,  "",
                 IF "href" \in DOMAIN node.attrs THEN node.attrs.href ELSE "",
                 Interactive(node)) >>
    ELSE Concat([i \in 1..Len(node.children) |-> Parts(node.children[i])])

IsKind(part, kind) == part.kind = kind
Of(parts, kind) == SelectSeq(parts, LAMBDA p : IsKind(p, kind))

\* The cards of a rendered grid, left to right.
Cards(grid) == grid.children

Kinds(card) == [i \in 1..Len(Parts(card)) |-> Parts(card)[i].kind]
Titles(card) == Of(Parts(card), "title")
Controls(card) == Of(Parts(card), "control")
LimitRows(card) ==
    [i \in 1..Len(Of(Parts(card), "row")) |->
        << Of(Parts(card), "row")[i].text, Of(Parts(card), "row")[i].value >>]

\* The labels of a card's limit rows, top to bottom.
LimitLabels(card) ==
    [i \in 1..Len(LimitRows(card)) |-> LimitRows(card)[i][1]]

\* The descriptor a rendered card displays.
Highlighted(card) == "border-primary" \in card.class

\* The border a card shows under a theme. A card has a border only with a
\* border width class (border-2); its colour is the one of border-primary,
\* replaced in dark mode by the one of the dark: variant, which is the
\* colour of the card's dark background (dark:bg-bg-mute).
BorderWidth(card) == IF "border-2" \in card.class THEN 2 ELSE 0

BorderColour(card, th) ==
    IF th = "dark" /\ "dark:border-bg-mute" \in card.class THEN "bg-mute"
    ELSE IF "border-primary" \in card.class THEN "primary"
    ELSE "default"

ShowsPrimaryBorder(card, th) ==
    BorderWidth(card) > 0 /\ BorderColour(card, th) = "primary"

Described(card) ==
    [name |-> Of(Parts(card), "title")[1].text,
     priceLabel |-> Of(Parts(card), "amount")[1].text,
     priceUnit |-> Of(Parts(card), "unit")[1].text,
     description |-> Of(Parts(card), "banner")[1].text,
     limits |-> LimitRows(card),
     callToAction |-> CallToAction(Controls(card)[1].text,
                                   Controls(card)[1].href),
     highlighted |-> Highlighted(card)]

\* ------------------------------------------------------ the chat handler
\* The requests of one session, all for the key session:<id>:messages.
Requests == 1..NumRequests

Stages == {"questioning", "qa", "other"}

\* A message as POST builds it: { role, content, timestamp }. The content of
\* request r's user message is r, the content of the response to it is r too.
Message(role, content, timestamp) ==
    [role |-> role, content |-> content, timestamp |-> timestamp]

\* JSON.stringify of a message and JSON.parse of a list item.
Stringify(message) == [json |-> message]
Parse(item) == item.json

NoMessage == Message("none", 0, 0)

IdleRequest ==
    [pc |-> "idle", user |-> NoMessage,
     response |-> NoMessage, seen |-> <<>>, expiries |-> 0]

ChatInit ==
    /\ chatRedis = [list |-> <<>>, ttl |-> FALSE, expiries |-> 0]
    /\ chatReq = [r \in Requests |-> IdleRequest]
    /\ chatClock = 0

Returned == {r \in Requests : chatReq[r].pc = "returned"}

\* rpush taken for lpush: the item goes to the head.
Lpush(list, message) == << Stringify(message) >> \o list

\* redis.rpush(key, JSON.stringify(message)): the item goes to the tail.
Rpush(list, message) == Append(list, Stringify(message))

\* redis.lrange(key, 0, -1) and the map of JSON.parse over it.
Lrange(list) == [i \in 1..Len(list) |-> Parse(list[i])]

\* const { message, sessionId, stage } = await request.json()
Receive(r) ==
    /\ chatReq[r].pc = "idle"
    /\ chatReq' = [chatReq EXCEPT ![r].pc = "received"]
    /\ UNCHANGED <<chatRedis, chatClock, pageVars, queryVars, interviewVars>>

\* const history = await getSessionHistory(sessionId); then the user message
\* is built, with Date.now(), for the first saveMessage.
GetSessionHistory(r) ==
    /\ chatReq[r].pc = "received"
    /\ chatReq' = [chatReq EXCEPT
                     ![r].pc = "read",
                     ![r].seen = Lrange(chatRedis.list),
                     ![r].user = Message("user", r, chatClock)]
    /\ chatClock' = chatClock + 1
    /\ UNCHANGED <<chatRedis, pageVars, queryVars, interviewVars>>

\* saveMessage(sessionId, user message): await redis.rpush(...)
SaveUserRpush(r) ==
    /\ chatReq[r].pc = "read"
    /\ chatRedis' = [chatRedis EXCEPT !.list = Rpush(@, chatReq[r].user)]
    /\ chatReq' = [chatReq EXCEPT ![r].pc = "pushed"]
    /\ UNCHANGED <<chatClock, pageVars, queryVars, interviewVars>>

\* saveMessage(sessionId, user message): await redis.expire(key, 30 days)
SaveUserExpire(r) ==
    /\ chatReq[r].pc = "pushed"
    /\ chatRedis' = [chatRedis EXCEPT !.ttl = TRUE]
    /\ chatReq' = [chatReq EXCEPT ![r].pc = "saved"]
    /\ UNCHANGED <<chatClock, pageVars, queryVars, interviewVars>>

\* switch (stage): the response of the handler of the request's stage, and
\* the assistant message built from it with Date.now(). handleUserQuery
\* catches its errors; the other two handlers may throw, and POST does not
\* catch.
Respond(r) ==
    /\ chatReq[r].pc = "saved"
    /\ \E stage \in Stages, ok \in BOOLEAN :
          /\ stage = "qa" => ok
          /\ chatReq' = [chatReq EXCEPT
                           ![r].pc = IF ok THEN "responded" ELSE "failed",
                           ![r].response =
                               IF ok THEN Message("assistant", r, chatClock)
                               ELSE NoMessage]
    /\ chatClock' = chatClock + 1
    /\ UNCHANGED <<chatRedis, pageVars, queryVars, interviewVars>>

\* saveMessage(sessionId, assistant message): await redis.rpush(...)
SaveResponseRpush(r) ==
    /\ chatReq[r].pc = "responded"
    /\ chatRedis' = [chatRedis EXCEPT !.list = Rpush(@, chatReq[r].response)]
    /\ chatReq' = [chatReq EXCEPT ![r].pc = "apushed"]
    /\ UNCHANGED <<chatClock, pageVars, queryVars, interviewVars>>

\* saveMessage(sessionId, assistant message): await redis.expire(...); then
\* return Response.json({ response })
SaveResponseExpire(r) ==
    /\ chatReq[r].pc = "apushed"
    /\ chatRedis' = [chatRedis EXCEPT !.ttl = TRUE]
    /\ chatReq' = [chatReq EXCEPT ![r].pc = "returned",
                                  ![r].expiries = chatRedis.expiries]
    /\ UNCHANGED <<chatClock, pageVars, queryVars, interviewVars>>

\* Thirty days pass without a save: Redis deletes the key. No handler takes
\* thirty days, so no request is under way.
KeyExpires ==
    /\ chatRedis.ttl
    /\ chatRedis.expiries < MaxExpiries
    /\ \A r \in Requests : chatReq[r].pc \in {"idle", "returned", "failed"}
    /\ chatRedis' = [list |-> <<>>, ttl |-> FALSE,
                     expiries |-> chatRedis.expiries + 1]
    /\ UNCHANGED <<chatReq, chatClock, pageVars, queryVars, interviewVars>>

ChatNext ==
    \/ \E r \in Requests : Receive(r)
    \/ \E r \in Requests : GetSessionHistory(r)
    \/ \E r \in Requests : SaveUserRpush(r)
    \/ \E r \in Requests : SaveUserExpire(r)
    \/ \E r \in Requests : Respond(r)
    \/ \E r \in Requests : SaveResponseRpush(r)
    \/ \E r \in Requests : SaveResponseExpire(r)
    \/ KeyExpires

\* ------------------------------------------------------- handleUserQuery
\* Scores are in tenths: Threshold is the 0.7 of the relevance check.
TopK == 3
Threshold == 7
Scores == {5, 7, 9}

FollowUp ==
    "That's a great question! I'll make sure our team follows up with you directly about that."
Fallback == "I'll make sure our team gets back to you on that question."
Answer == "completion.choices[0].message.content"

\* What vectorIndex.query may return for topK: at most TopK matches, the
\* best first; the text of a match is its passage, named by its rank.
SearchResults ==
    LET ranked == UNION {[1..n -> Scores] : n \in 0..TopK}
    IN  {[i \in DOMAIN f |-> [score |-> f[i], text |-> i]] :
            f \in {g \in ranked :
                      \A i, j \in DOMAIN g : i < j => g[i] >= g[j]}}

\* searchResults.map(match => match.metadata.text), by join the context.
Context(searchResults) ==
    [i \in 1..Len(searchResults) |-> searchResults[i].text]

\* if (searchResults.length === 0 || searchResults[0].score < 0.7)
NotRelevant(searchResults) ==
    Len(searchResults) = 0 \/ searchResults[1].score < Threshold

QueryIdle ==
    [pc |-> "idle", results |-> <<>>, context |-> <<>>, llmCalls |-> 0,
     prompted |-> FALSE, returned |-> "none", threw |-> FALSE, calls |-> 0]

QueryInit == query = QueryIdle

\* catch (error): the fallback is returned.
Caught(q) == [q EXCEPT !.pc = "done", !.returned = Fallback]

\* handleUserQuery(question, sessionId) is called.
QueryCall ==
    /\ query.pc \in {"idle", "done"}
    /\ query.calls < MaxQueries
    /\ query' = [QueryIdle EXCEPT !.pc = "embedding",
                                  !.calls = query.calls + 1]
    /\ UNCHANGED <<pageVars, chatVars, interviewVars>>

\* await openai.embeddings.create(...): the embedding, or an error.
Embed ==
    /\ query.pc = "embedding"
    /\ \E ok \in BOOLEAN :
          query' = IF ok THEN [query EXCEPT !.pc = "searching"]
                   ELSE Caught(query)
    /\ UNCHANGED <<pageVars, chatVars, interviewVars>>

\* await vectorIndex.query({ ..., topK: 3 }): the matches, or an error.
VectorQuery ==
    /\ query.pc = "searching"
    /\ \E ok \in BOOLEAN, found \in SearchResults :
          query' = IF ok
                   THEN [query EXCEPT !.pc = "checking", !.results = found]
                   ELSE Caught(query)
    /\ UNCHANGED <<pageVars, chatVars, interviewVars>>

\* The relevance check, and the context built from the search results.
CheckRelevance ==
    /\ query.pc = "checking"
    /\ query' = IF NotRelevant(query.results)
                THEN [query EXCEPT !.pc = "done", !.returned = FollowUp]
                ELSE [query EXCEPT !.pc = "completing",
                                   !.context = Context(query.results),
                                   !.prompted = TRUE]
    /\ UNCHANGED <<pageVars, chatVars, interviewVars>>

\* await openai.chat.completions.create(...) with the context: the answer,
\* or an error.
Complete ==
    /\ query.pc = "completing"
    /\ \E ok \in BOOLEAN :
          query' = IF ok
                   THEN [query EXCEPT !.pc = "done", !.returned = Answer,
                                      !.llmCalls = @ + 1]
                   ELSE [Caught(query) EXCEPT !.llmCalls = @ + 1]
    /\ UNCHANGED <<pageVars, chatVars, interviewVars>>

QueryNext ==
    \/ QueryCall
    \/ Embed
    \/ VectorQuery
    \/ CheckRelevance
    \/ Complete

\* ------------------------------------------------------ conductInterview
\* config.questions, by position, and the scores evaluateAnswer may give.
QuestionIds == 1..NumQuestions
ScoreValues == {0, 10, 16, 20}

InterviewIdle ==
    [pc |-> "idle", i |-> 0, totalScore |-> 0, score |-> 0, log |-> <<>>]

InterviewInit == interview = InterviewIdle

Event(kind, question, value) ==
    [kind |-> kind, question |-> question, value |-> value]

Did(kind, question, value) == Append(interview.log, Event(kind, question, value))

\* conductInterview(sessionId, config): let totalScore = 0, and the greeting
\* is saved.
Greet ==
    /\ interview.pc = "idle"
    /\ interview' = [interview EXCEPT
                       !.pc = "loop", !.i = 1, !.totalScore = 0,
                       !.log = Did("greeting", 0, 0)]
    /\ UNCHANGED <<pageVars, chatVars, queryVars>>

\* for (let i = 0; i < config.questions.length; i++): the question is saved.
AskQuestion ==
    /\ interview.pc = "loop"
    /\ interview.i <= NumQuestions
    /\ interview' = [interview EXCEPT
                       !.pc = "waiting",
                       !.log = Did("question", interview.i, 0)]
    /\ UNCHANGED <<pageVars, chatVars, queryVars>>

\* const answer = await waitForUserResponse(sessionId)
WaitForUserResponse ==
    /\ interview.pc = "waiting"
    /\ interview' = [interview EXCEPT
                       !.pc = "scoring",
                       !.log = Did("answer", interview.i, 0)]
    /\ UNCHANGED <<pageVars, chatVars, queryVars>>

\* totalScore += score, without the earlier scores.
AddScoreLost(total, score) == score

\* totalScore += score
AddScore(total, score) == total + score

\* const score = await evaluateAnswer(question, answer, sessionId);
\* totalScore += score
EvaluateAnswer ==
    /\ interview.pc = "scoring"
    /\ \E score \in ScoreValues :
          interview' = [interview EXCEPT
                          !.pc = "scored", !.score = score,
                          !.totalScore = AddScore(@, score),
                          !.log = Did("score", interview.i, score)]
    /\ UNCHANGED <<pageVars, chatVars, queryVars>>

\* if (score > 15) the encouragement is saved; then i++.
Feedback ==
    /\ interview.pc = "scored"
    /\ interview' = [interview EXCEPT
                       !.pc = "loop", !.i = @ + 1,
                       !.log = IF interview.score > 15
                               THEN Did("feedback", interview.i, 0)
                               ELSE @]
    /\ UNCHANGED <<pageVars, chatVars, queryVars>>

\* await requestCVUpload(sessionId)
RequestCVUpload ==
    /\ interview.pc = "loop"
    /\ interview.i > NumQuestions
    /\ interview' = [interview EXCEPT
                       !.pc = "qa", !.log = Did("cv upload", 0, 0)]
    /\ UNCHANGED <<pageVars, chatVars, queryVars>>

\* The Q&A invitation is saved.
InviteQuestions ==
    /\ interview.pc = "qa"
    /\ interview' = [interview EXCEPT
                       !.pc = "finalizing", !.log = Did("q&a", 0, 0)]
    /\ UNCHANGED <<pageVars, chatVars, queryVars>>

\* await finalizeApplication(sessionId, totalScore)
FinalizeApplication ==
    /\ interview.pc = "finalizing"
    /\ interview' = [interview EXCEPT
                       !.pc = "done",
                       !.log = Did("finalize", 0, interview.totalScore)]
    /\ UNCHANGED <<pageVars, chatVars, queryVars>>

\* An awaited call rejects: conductInterview catches nothing and rejects.
Reject ==
    /\ interview.pc \notin {"idle", "done", "failed"}
    /\ interview' = [interview EXCEPT !.pc = "failed"]
    /\ UNCHANGED <<pageVars, chatVars, queryVars>>

InterviewNext ==
    \/ Greet
    \/ AskQuestion
    \/ WaitForUserResponse
    \/ EvaluateAnswer
    \/ Feedback
    \/ RequestCVUpload
    \/ InviteQuestions
    \/ FinalizeApplication
    \/ Reject

\* ----------------------------------------------------------------- the page
Url(doc, fragment) == [doc |-> doc, fragment |-> fragment]

\* The URL the browser shows: the last entry of the session history.
Location == history[Len(history)]

\* The URL a link's href names on a page at base: "#" is a fragment-only
\* reference (the same document, with the empty fragment); the other
\* targets of the table are absolute URLs.
Resolve(base, href) ==
    IF href = Placeholder THEN Url(base.doc, "") ELSE Url(href, NoFragment)

Init ==
    /\ mounted = FALSE
    /\ dom = NoDom
    /\ firstDom = NoDom
    /\ theme \in {"light", "dark"}
    /\ history = << Url(PricingPage, NoFragment) >>
    /\ renders = 0
    /\ activations = 0
    /\ lastControl = 0
    /\ failure = NoFailure
    /\ ChatInit
    /\ QueryInit
    /\ InterviewInit

\* One invocation of PricingTable() and the render of its element, with
\* the Button throwing err in the cards of failing. An error that leaves
\* the render takes the table off the page; otherwise the output is shown.
Show(failing, err) ==
    LET r == TryRender(PricingTable, failing, err)
    IN  /\ mounted' = ~IsThrown(r)
        /\ dom' = IF IsThrown(r) THEN NoDom ELSE r
        /\ failure' = IF failing = {} THEN failure
                      ELSE [cards |-> failing, thrown |-> err,
                            seen |-> IF IsThrown(r) THEN r.text ELSE "none"]
        /\ renders' = renders + 1

\* The page is displayed: PricingTable() is invoked and its element rendered.
Mount ==
    /\ ~mounted
    /\ failure = NoFailure
    /\ Location.doc = PricingPage
    /\ renders < MaxRenders
    /\ \E failing \in SUBSET (1..Len(PricingTable.children)), err \in Errors :
          Show(failing, err)
    /\ firstDom' = IF renders = 0 THEN dom' ELSE firstDom
    /\ UNCHANGED <<theme, history, activations, lastControl>>
    /\ UNCHANGED blogVars

\* The surrounding page re-renders: PricingTable() is invoked again.
Rerender ==
    /\ mounted
    /\ renders < MaxRenders
    /\ \E failing \in SUBSET (1..Len(PricingTable.children)), err \in Errors :
          Show(failing, err)
    /\ UNCHANGED <<firstDom, theme, history, activations, lastControl>>
    /\ UNCHANGED blogVars

\* The visitor toggles dark mode; a displayed table is rendered again.
ToggleTheme ==
    /\ theme' = IF theme = "light" THEN "dark" ELSE "light"
    /\ IF mounted
       THEN /\ renders < MaxRenders
            /\ \E failing \in SUBSET (1..Len(PricingTable.children)),
                  err \in Errors : Show(failing, err)
       ELSE UNCHANGED <<mounted, dom, renders, failure>>
    /\ UNCHANGED <<firstDom, history, activations, lastControl>>
    /\ UNCHANGED blogVars

\* The visitor activates the action control of card i: the browser follows
\* the link in the same browsing context (target="_self"). A target in the
\* same document moves to its fragment, adding a history entry unless the
\* URL is the current one; any other target leaves the page.
Activate(i) ==
    /\ mounted
    /\ activations < MaxActivations
    /\ Controls(Cards(dom)[i]) # <<>>
    /\ LET control == Controls(Cards(dom)[i])[1]
           url == Resolve(Location, control.href)
       IN  /\ control.interactive
           /\ url # Location => Len(history) < MaxHistory
           /\ history' = IF url = Location THEN history
                         ELSE Append(history, url)
           /\ IF url.doc = Location.doc
              THEN UNCHANGED <<mounted, dom>>
              ELSE mounted' = FALSE /\ dom' = NoDom
    /\ activations' = activations + 1
    /\ lastControl' = i
    /\ UNCHANGED <<firstDom, theme, renders, failure>>
    /\ UNCHANGED blogVars

\* The visitor goes back one entry of the session history; coming back from
\* another document displays the page again.
Back ==
    /\ Len(history) > 1
    /\ LET prev == history[Len(history) - 1]
       IN  /\ history' = SubSeq(history, 1, Len(history) - 1)
           /\ IF prev.doc = Location.doc
              THEN UNCHANGED <<mounted, dom, renders, failure>>
              ELSE /\ renders < MaxRenders
                   /\ \E failing \in SUBSET (1..Len(PricingTable.children)),
                         err \in Errors : Show(failing, err)
    /\ UNCHANGED <<firstDom, theme, activations, lastControl>>
    /\ UNCHANGED blogVars

Next ==
    \/ Mount
    \/ Rerender
    \/ ToggleTheme
    \/ \E i \in 1..Len(Cards(dom)) : Activate(i)
    \/ Back

Spec == Init /\ [][Next]_vars

SpecChat == Init /\ [][ChatNext]_vars

SpecQuery == Init /\ [][QueryNext]_vars

SpecInterview == Init /\ [][InterviewNext]_vars

\* ------------------------------------------------------------------- claims
Displayed == [i \in 1..Len(Cards(dom)) |-> Described(Cards(dom)[i])]

\* C1: the action control of every rendered card is interactive if and only
\* if the call to action of its plan is enabled (Free and Pay as you go
\* interactive, Pro not).
C1_InteractiveIffEnabled ==
    mounted =>
        /\ Len(Cards(dom)) = Len(Catalog)
        /\ \A i \in 1..Len(Catalog) :
              Controls(Cards(dom)[i])[1].interactive
                  <=> Catalog[i].callToAction.enabled

\* C2: activating the control of a plan whose call to action is disabled
\* leaves the page location as it was; the control's target is the
\* placeholder, never a destination, and its label is the call to action's.
C2_DisabledActivationIsNoOp ==
    [][ /\ mounted =>
             \A i \in 1..Len(Catalog) :
                 ~Catalog[i].callToAction.enabled =>
                     /\ Controls(Cards(dom)[i])[1].href = Placeholder
                     /\ Controls(Cards(dom)[i])[1].text
                            = Catalog[i].callToAction.label
        /\ (activations' # activations
              /\ ~Catalog[lastControl'].callToAction.enabled)
             => Location' = Location ]_vars

\* C3: the limit rows of every plan's rendered card are the plan's limits:
\* the same (label, value) pairs, as many and in the same order.
C3_LimitRowsAreLimits ==
    mounted =>
        \A i \in 1..Len(Catalog) :
            /\ i <= Len(Cards(dom))
            /\ LimitRows(Cards(dom)[i]) = Catalog[i].limits

C3_Witness ==
    /\ mounted
    /\ \E i \in 1..Len(Cards(dom)) :
          /\ Len(LimitRows(Cards(dom)[i])) = 2
          /\ LimitRows(Cards(dom)[i])[1] # LimitRows(Cards(dom)[i])[2]

C6_RenderIsIdempotent ==
    mounted => dom = firstDom

C6_Witness ==
    /\ mounted
    /\ renders >= 2
    /\ theme = "dark"
    /\ Location.fragment = ""
    /\ dom # NoDom

\* C7: the first card is titled "Free", priced "$0" with unit "-", has the
\* two limit rows Monthly Query Limit 20K and Max Records 200K in that
\* order, and an interactive "Start Now" control targeting the console.
C7_FreeCard ==
    mounted =>
        LET parts == Parts(Cards(dom)[1])
        IN  /\ Of(parts, "title") = << Part("title", "Free", "", "", FALSE) >>
            /\ Of(parts, "amount") = << Part("amount", "$0", "", "", FALSE) >>
            /\ Of(parts, "unit") = << Part("unit", "-", "", "", FALSE) >>
            /\ Of(parts, "row")
                 = << Part("row", "Monthly Query Limit", "20K", "", FALSE),
                      Part("row", "Max Records", "200K", "", FALSE) >>
            /\ Of(parts, "control")
                 = << Part("control", "Start Now", "",
                           "https://console.upstash.com", TRUE) >>

C7_Witness ==
    /\ mounted
    /\ Len(Parts(Cards(dom)[1])) = 7
    /\ Controls(Cards(dom)[1])[1].text = "Start Now"

\* C8: every rendered card exposes, in this order, one title, one price
\* amount, one price unit, one description banner, its limit rows and one
\* action control, and no other control.
C8_CardAnatomy ==
    mounted =>
        \A i \in 1..Len(Cards(dom)) :
            LET kinds == Kinds(Cards(dom)[i])
                n == Len(kinds)
            IN  /\ n >= 5
                /\ SubSeq(kinds, 1, 4)
                     = << "title", "amount", "unit", "banner" >>
                /\ \A j \in 5..(n - 1) : kinds[j] = "row"
                /\ kinds[n] = "control"
                /\ Len(Controls(Cards(dom)[i])) = 1

C8_Witness ==
    /\ mounted
    /\ Len(Cards(dom)) = 3
    /\ \A i \in 1..Len(Cards(dom)) : Len(Kinds(Cards(dom)[i])) = 7

\* C9: no step changes a plan descriptor or the order of the plans: what a
\* displayed table shows after any step is the catalog, and is what it
\* showed before the step.
C9_CatalogIsImmutable ==
    [][ mounted' =>
          /\ Displayed' = Catalog
          /\ mounted => Displayed' = Displayed ]_vars

C9_Witness ==
    /\ mounted
    /\ renders >= 2
    /\ activations >= 2
    /\ lastControl \in {1, 2}

\* C10: the titles of the rendered cards are non-empty and pairwise
\* different.
C10_NamesUnique ==
    mounted =>
        \A i, j \in 1..Len(Cards(dom)) :
            /\ Len(Titles(Cards(dom)[i])) = 1
            /\ Titles(Cards(dom)[i])[1].text # ""
            /\ i # j => Titles(Cards(dom)[i])[1].text
                            # Titles(Cards(dom)[j])[1].text

C10_Witness ==
    /\ mounted
    /\ Len(Cards(dom)) >= 2
    /\ \A i \in 1..Len(Cards(dom)) : Titles(Cards(dom)[i]) # <<>>

\* C11: a render in which the Button throws for some card shows no table at
\* all, and the error that leaves the render is the error the Button threw;
\* a table that is shown has every card and every card's control; after a
\* failed render PricingTable is not invoked again.
C11_NoPartialRender ==
    [][ /\ failure'.thrown # "none" =>
             /\ ~mounted'
             /\ dom' = NoDom
             /\ failure'.seen = failure'.thrown
        /\ mounted' =>
             /\ Len(Cards(dom')) = Len(PricingTable.children)
             /\ \A i \in 1..Len(Cards(dom')) : Controls(Cards(dom')[i]) # <<>>
        /\ failure # NoFailure => renders' = renders /\ failure' = failure
      ]_vars

C11_Witness ==
    /\ failure.cards = {2}
    /\ failure.thrown = "RangeError"
    /\ renders >= 2
    /\ ~mounted

\* C12: in every displayed table exactly one card, the Pay-as-you-go card,
\* shows a primary border, and a card that shows one has an enabled call to
\* action.
C12_OneHighlightedCard ==
    mounted =>
        /\ {i \in 1..Len(Cards(dom)) : ShowsPrimaryBorder(Cards(dom)[i], theme)}
              = {2}
        /\ Titles(Cards(dom)[2])[1].text = "Pay as you go"
        /\ \A i \in 1..Len(Cards(dom)) :
              ShowsPrimaryBorder(Cards(dom)[i], theme) =>
                  Described(Cards(dom)[i]).callToAction.enabled

\* C13: all cards of a displayed table show the limit labels Monthly Query
\* Limit and Max Records, in that order; any two cards have the same labels,
\* and some two cards differ in a value.
C13_SameLimitLabels ==
    mounted =>
        /\ \A i \in 1..Len(Cards(dom)) :
              LimitLabels(Cards(dom)[i])
                  = << "Monthly Query Limit", "Max Records" >>
        /\ \A i, j \in 1..Len(Cards(dom)) :
              LimitLabels(Cards(dom)[i]) = LimitLabels(Cards(dom)[j])
        /\ \E i, j \in 1..Len(Cards(dom)) :
              LimitRows(Cards(dom)[i]) # LimitRows(Cards(dom)[j])

C13_Witness ==
    /\ mounted
    /\ Len(Cards(dom)) = 3
    /\ LimitRows(Cards(dom)[1])[1][2] # LimitRows(Cards(dom)[2])[1][2]
    /\ LimitLabels(Cards(dom)[2]) # <<>>

\* The user message of a request comes before the response to it in seq.
HoldsBoth(seq, req) ==
    \E i, j \in 1..Len(seq) :
        /\ i < j
        /\ seq[i] = req.user /\ seq[i].role = "user"
        /\ seq[j] = req.response /\ seq[j].role = "assistant"

\* No response in seq comes without the user message it answers before it.
UserFirst(seq) ==
    \A j \in 1..Len(seq) :
        seq[j].role = "assistant" =>
            \E i \in 1..(j - 1) :
                /\ seq[i].role = "user"
                /\ seq[i].content = seq[j].content
                /\ seq[i].timestamp <= seq[j].timestamp

C15_ContextClearsBar ==
    /\ query.prompted =>
          /\ Len(query.context) <= TopK
          /\ \A i \in 1..Len(query.context) :
                \E j \in 1..Len(query.results) :
                    /\ query.results[j].text = query.context[i]
                    /\ query.results[j].score >= Threshold
    /\ ( /\ query.pc \in {"completing", "done"}
         /\ query.returned # Fallback
         /\ \A j \in 1..Len(query.results) :
               query.results[j].score < Threshold )
          => /\ query.returned = FollowUp
             /\ query.llmCalls = 0
             /\ ~query.prompted
    /\ ~query.threw
    /\ query.pc = "done" => query.returned \in {FollowUp, Fallback, Answer}

\* The events of a log of one kind, and the stage an event belongs to.
OfKind(log, kind) == SelectSeq(log, LAMBDA e : e.kind = kind)

StageOf(e) ==
    CASE e.kind = "greeting"  -> 1
      [] e.kind = "cv upload" -> 3
      [] e.kind = "q&a"       -> 4
      [] e.kind = "finalize"  -> 5
      [] OTHER                -> 2

RECURSIVE SumOfScores(_)
SumOfScores(log) ==
    IF log = <<>> THEN 0
    ELSE (IF Head(log).kind = "score" THEN Head(log).value ELSE 0)
            + SumOfScores(Tail(log))

\* An event of this kind for this question lies before position p.
Before(log, p, kind, question) ==
    \E k \in 1..(p - 1) : log[k].kind = kind /\ log[k].question = question

\* C16: the stages of the interview happen in the order greeting,
\* questioning, CV upload, Q&A, finalization; the questions are asked in
\* configuration order, each one after the previous question's answer was
\* awaited and scored; finalizeApplication is called at most once, exactly
\* once in an interview that has run to its end, after every question was
\* scored, with the sum of the per-question scores.
C16_InterviewInOrder ==
    LET log == interview.log
        asked == OfKind(log, "question")
        finals == OfKind(log, "finalize")
    IN  /\ \A p, q \in 1..Len(log) : p < q => StageOf(log[p]) <= StageOf(log[q])
        /\ log # <<>> => log[1].kind = "greeting"
        /\ \A k \in 1..Len(asked) : asked[k].question = k
        /\ \A p \in 1..Len(log) :
              /\ log[p].kind = "score" =>
                    Before(log, p, "answer", log[p].question)
              /\ log[p].kind = "answer" =>
                    Before(log, p, "question", log[p].question)
              /\ (log[p].kind = "question" /\ log[p].question > 1) =>
                    Before(log, p, "score", log[p].question - 1)
              /\ log[p].kind = "finalize" =>
                    /\ \A n \in QuestionIds : Before(log, p, "score", n)
                    /\ \A n \in {3, 4} :
                          \E k \in 1..(p - 1) : StageOf(log[k]) = n
                    /\ log[p].value = SumOfScores(log)
                    /\ p = Len(log)
        /\ \A n \in QuestionIds :
              Len(SelectSeq(log, LAMBDA e : e.kind = "score"
                                            /\ e.question = n)) <= 1
        /\ Len(finals) <= 1
        /\ interview.pc = "done" => Len(finals) = 1

C16_Witness ==
    /\ interview.pc = "done"
    /\ Len(OfKind(interview.log, "score")) = NumQuestions
    /\ OfKind(interview.log, "feedback") # <<>>
    /\ \E p \in 1..Len(interview.log) :
          /\ interview.log[p].kind = "finalize"
          /\ interview.log[p].value > 20

====
